---- MODULE Spec2Model ----
(***************************************************************************)
(* Rate limiting and usage accounting of the ops-service.                  *)
(*                                                                         *)
(* app/governance.py keeps the process-wide dict user_requests and decides *)
(* admission in check_rate_limit; main.py calls it from the coroutine      *)
(* generate_text (async def, no await: the event loop runs one such        *)
(* handler at a time, to completion) and serves get_user_stats from the    *)
(* plain function user_stats, which the framework runs on threadpool       *)
(* threads that interleave with the event loop between any two accesses    *)
(* of the dict.                                                            *)
(***************************************************************************)
EXTENDS Integers, Sequences, FiniteSets, TLC

\* ---------------------------------------------------------------- bounds
MaxTime == 60
BurstTime == 30
MaxMixed == 2
MaxSlide == 3
Extra == 1
MaxPending == 2

\* the clock advances in steps of this many seconds
TickSteps == {30}

\* ------------------------------------------------------ program constants
\* governance.py:10-15
RATE_LIMITS == [alice |-> 30, bob |-> 1, premium |-> 100, default |-> 10]

\* governance.py:31 and :59, the length of the window in seconds
WINDOW == 60

\* the user identities that send requests: one configured, one that differs
\* from a configured key only by case
UserIds == {"bob", "Bob"}
BurstUser == "Bob"

\* the threadpool threads that serve /users/{user}/stats, main.py:107-110;
\* threads share nothing but user_requests
StatsThreads == {"worker"}

\* the tables a deployment may be started with: the one in the source, and
\* the same with the limit of a user or the default set to zero or below
PolicyTables ==
    { RATE_LIMITS,
      [RATE_LIMITS EXCEPT !["bob"] = 0],
      [RATE_LIMITS EXCEPT !["bob"] = -1],
      [RATE_LIMITS EXCEPT !["default"] = 0] }

\* the module global RATE_LIMITS as the running process holds it,
\* governance.py:10
VARIABLE policy

\* a lookup that ignores the case of the identity
get_user_limit_nocase(user) ==
    IF user \in {"bob", "Bob"} THEN policy["bob"]
    ELSE IF user \in DOMAIN policy THEN policy[user] ELSE policy["default"]

\* governance.py:17-19
get_user_limit(user) ==
    IF user \in DOMAIN policy THEN policy[user] ELSE policy["default"]

\* a comprehension that drops timestamps half a window too early
recent_requests_early(reqs, cutoff_time) ==
    SelectSeq(reqs, LAMBDA req_time : req_time > cutoff_time + 30)

\* a comprehension with >= in place of >
recent_requests_ge(reqs, cutoff_time) ==
    SelectSeq(reqs, LAMBDA req_time : req_time >= cutoff_time)

\* governance.py:32-35 and :65-68, the list comprehension
recent_requests(reqs, cutoff_time) ==
    SelectSeq(reqs, LAMBDA req_time : req_time > cutoff_time)

\* governance.py:49, user_requests.get(user, [])
dict_get(d, user) == IF user \in DOMAIN d THEN d[user] ELSE << >>

\* a store that replaces the whole dict by the one entry
dict_set_only(d, user, value) == [k \in {user} |-> value]

\* governance.py:28, :32 and :62, user_requests[user] = value
dict_set(d, user, value) ==
    [k \in (DOMAIN d) \cup {user} |-> IF k = user THEN value ELSE d[k]]

\* governance.py:76
remaining(limit, n) == IF limit - n > 0 THEN limit - n ELSE 0

Statuses == {"200", "503", "500"}

\* what the clients and the backend do in a run: a mixed load of both users
\* with every kind of request and backend answer; one configured user whose
\* requests spread over more than a window; or a burst of one unconfigured
\* user that goes past the default limit. The last two run against a
\* healthy backend.
MixedLoad ==
    [budget |-> MaxMixed, users |-> UserIds,
     statuses |-> Statuses, prompts |-> BOOLEAN, horizon |-> MaxTime]

SlideLoad ==
    [budget |-> MaxSlide, users |-> {"bob"}, statuses |-> {"200"}, prompts |-> {FALSE},
     horizon |-> MaxTime]

BurstLoad ==
    [budget |-> RATE_LIMITS["default"] + Extra,
     users |-> {BurstUser}, statuses |-> {"200"}, prompts |-> {FALSE},
     horizon |-> BurstTime]

Workloads == {MixedLoad, SlideLoad, BurstLoad}

VARIABLES
    clock,                 \* time.time()
    user_requests,         \* governance.py:7, user -> list of timestamps
    RATE_LIMIT_EXCEEDED,   \* metrics.py:47, counter by user
    ACTIVE_REQUESTS,       \* metrics.py:16, gauge
    REQUEST_COUNT,         \* metrics.py:4, counter by status
    TOKEN_COUNTS,          \* metrics.py:22-32, number of token recordings
    backend_calls,         \* number of requests.post calls made, main.py:146
    workload,              \* the load of this run, fixed at the start
    budget,                \* requests the clients may still send
    pending,               \* generate requests received and not yet started
    peak,                  \* most requests of one user in flight together so far
    h,                     \* frame of the handler the event loop is running
    st,                    \* frames of the threadpool threads serving stats
    checks                 \* per user, the admission checks that returned

vars == << policy, clock, user_requests, RATE_LIMIT_EXCEEDED, ACTIVE_REQUESTS,
           REQUEST_COUNT, TOKEN_COUNTS, backend_calls, workload, budget, pending,
           peak, h, st, checks >>

metrics == << RATE_LIMIT_EXCEEDED, ACTIVE_REQUESTS, REQUEST_COUNT, TOKEN_COUNTS,
              backend_calls >>

NoResponse == [status |-> "", current_requests |-> 0, limit |-> 0]

IdleFrame == [pc |-> "idle", user |-> "", current_time |-> 0, limit |-> 0,
              recent |-> << >>, counted |-> << >>, status |-> "",
              response |-> NoResponse]

NoSnapshot == [requests_last_minute |-> 0, rate_limit |-> 0, remaining |-> 0]

IdleStats == [pc |-> "idle", user |-> "", current_time |-> 0, snap |-> NoSnapshot]

\* the state of the process once governance.py and main.py are imported
Started ==
    /\ clock = 0
    /\ user_requests = << >>
    /\ RATE_LIMIT_EXCEEDED = [u \in UserIds |-> 0]
    /\ ACTIVE_REQUESTS = 0
    /\ REQUEST_COUNT = [s \in Statuses |-> 0]
    /\ TOKEN_COUNTS = 0
    /\ backend_calls = 0
    /\ budget = workload.budget
    /\ pending = [u \in UserIds |-> 0]
    /\ peak = 0
    /\ h = IdleFrame
    /\ st = [t \in StatsThreads |-> IdleStats]
    /\ checks = [u \in UserIds |-> << >>]

Init ==
    /\ policy = RATE_LIMITS
    /\ workload \in Workloads
    /\ Started

\* governance.py:10-15 binds whatever table the deployment carries; nothing
\* looks at its values before the first request
InitLoad ==
    /\ policy \in PolicyTables
    /\ workload = MixedLoad
    /\ Started

\* ------------------------------------------------------------ environment
Tick ==
    /\ \E d \in TickSteps : clock + d <= workload.horizon /\ clock' = clock + d
    /\ UNCHANGED << user_requests, metrics, policy, workload, budget, pending, peak, h, st, checks >>

\* a client posts to /generate
Arrive(u) ==
    /\ u \in workload.users
    /\ budget > 0
    /\ pending[u] + 1 <= MaxPending
    /\ budget' = budget - 1
    /\ pending' = [pending EXCEPT ![u] = @ + 1]
    /\ LET inflight == pending[u] + 1 + (IF h.pc # "idle" /\ h.user = u THEN 1 ELSE 0)
       IN peak' = IF inflight > peak THEN inflight ELSE peak
    /\ UNCHANGED << clock, user_requests, metrics, policy, workload, h, st, checks >>

\* ------------------------------------------- generate_text, main.py:118-232
\* main.py:121-127: the prompt is checked before anything else
Start(u, prompt_empty) ==
    /\ h.pc = "idle"
    /\ pending[u] > 0
    /\ prompt_empty \in workload.prompts
    /\ pending' = [pending EXCEPT ![u] = @ - 1]
    /\ h' = IF prompt_empty
              THEN [IdleFrame EXCEPT !.pc = "reply", !.user = u,
                                     !.response = [NoResponse EXCEPT !.status = "400"]]
              ELSE [IdleFrame EXCEPT !.pc = "L23", !.user = u]
    /\ UNCHANGED << clock, user_requests, metrics, policy, workload, budget, peak, st, checks >>

\* governance.py:23-24
CheckReadClock ==
    /\ h.pc = "L23"
    /\ h' = [h EXCEPT !.pc = "L27", !.current_time = clock,
                      !.limit = get_user_limit(h.user)]
    /\ UNCHANGED << clock, user_requests, metrics, policy, workload, budget, pending, peak, st, checks >>

\* governance.py:27
CheckTestEntry ==
    /\ h.pc = "L27"
    /\ h' = [h EXCEPT !.pc = IF h.user \notin DOMAIN user_requests THEN "L28" ELSE "L33"]
    /\ UNCHANGED << clock, user_requests, metrics, policy, workload, budget, pending, peak, st, checks >>

\* governance.py:28
CheckInitEntry ==
    /\ h.pc = "L28"
    /\ user_requests' = dict_set(user_requests, h.user, << >>)
    /\ h' = [h EXCEPT !.pc = "L33"]
    /\ UNCHANGED << clock, metrics, policy, workload, budget, pending, peak, st, checks >>

\* governance.py:31, :33-35: the comprehension reads the stored list
CheckFilter ==
    /\ h.pc = "L33"
    /\ h' = [h EXCEPT !.pc = "L32",
                      !.recent = recent_requests(user_requests[h.user],
                                                 h.current_time - WINDOW)]
    /\ UNCHANGED << clock, user_requests, metrics, policy, workload, budget, pending, peak, st, checks >>

\* a check that filters and forgets to store the result
CheckStorePruned_skip ==
    /\ h.pc = "L32"
    /\ h' = [h EXCEPT !.pc = "L38", !.recent = << >>]
    /\ UNCHANGED << clock, user_requests, metrics, policy, workload, budget, pending, peak, st,
                    checks >>

\* governance.py:32: the filtered list is stored
CheckStorePruned ==
    /\ h.pc = "L32"
    /\ user_requests' = dict_set(user_requests, h.user, h.recent)
    /\ h' = [h EXCEPT !.pc = "L38", !.recent = << >>]
    /\ UNCHANGED << clock, metrics, policy, workload, budget, pending, peak, st, checks >>

\* a comparison with > in place of >=
CheckCompare_gt ==
    /\ h.pc = "L38"
    /\ h' = [h EXCEPT !.pc = IF Len(user_requests[h.user]) > h.limit
                               THEN "L39" ELSE "L43",
                      !.counted = user_requests[h.user]]
    /\ UNCHANGED << clock, user_requests, metrics, policy, workload, budget, pending, peak, st,
                    checks >>

\* governance.py:38: the stored list is read again and its length compared
CheckCompare ==
    /\ h.pc = "L38"
    /\ h' = [h EXCEPT !.pc = IF Len(user_requests[h.user]) >= h.limit
                               THEN "L39" ELSE "L43",
                      !.counted = user_requests[h.user]]
    /\ UNCHANGED << clock, user_requests, metrics, policy, workload, budget, pending, peak, st, checks >>

\* what the log keeps of a check that returns: its time, its result and the
\* timestamps it counted at governance.py:38
CheckRecord(ok) ==
    [t |-> h.current_time, ok |-> ok, n |-> Len(h.counted),
     oldest |-> IF h.counted = << >> THEN -1 ELSE Head(h.counted)]

\* a denial that records the request all the same
CheckDeny_records ==
    /\ h.pc = "L39"
    /\ RATE_LIMIT_EXCEEDED' = [RATE_LIMIT_EXCEEDED EXCEPT ![h.user] = @ + 1]
    /\ user_requests' = dict_set(user_requests, h.user,
                                 Append(user_requests[h.user], h.current_time))
    /\ checks' = [checks EXCEPT ![h.user] = Append(@, CheckRecord(FALSE))]
    /\ h' = [h EXCEPT !.pc = "L49"]
    /\ UNCHANGED << clock, ACTIVE_REQUESTS, REQUEST_COUNT, TOKEN_COUNTS,
                    backend_calls, policy, workload, budget, pending, peak, st >>

\* governance.py:39-40
CheckDeny ==
    /\ h.pc = "L39"
    /\ RATE_LIMIT_EXCEEDED' = [RATE_LIMIT_EXCEEDED EXCEPT ![h.user] = @ + 1]
    /\ checks' = [checks EXCEPT ![h.user] = Append(@, CheckRecord(FALSE))]
    /\ h' = [h EXCEPT !.pc = "L49"]
    /\ UNCHANGED << clock, user_requests, ACTIVE_REQUESTS, REQUEST_COUNT, TOKEN_COUNTS,
                    backend_calls, policy, workload, budget, pending, peak, st >>

\* an admission that also counts as a rejection in the metric
CheckAdmit_counts ==
    /\ h.pc = "L43"
    /\ user_requests' = dict_set(user_requests, h.user,
                                 Append(user_requests[h.user], h.current_time))
    /\ RATE_LIMIT_EXCEEDED' = [RATE_LIMIT_EXCEEDED EXCEPT ![h.user] = @ + 1]
    /\ checks' = [checks EXCEPT ![h.user] = Append(@, CheckRecord(TRUE))]
    /\ h' = [h EXCEPT !.pc = "L132", !.counted = << >>]
    /\ UNCHANGED << clock, ACTIVE_REQUESTS, REQUEST_COUNT, TOKEN_COUNTS, backend_calls,
                    policy, workload, budget, pending, peak, st >>

\* governance.py:43-44
CheckAdmit ==
    /\ h.pc = "L43"
    /\ user_requests' = dict_set(user_requests, h.user,
                                 Append(user_requests[h.user], h.current_time))
    /\ checks' = [checks EXCEPT ![h.user] = Append(@, CheckRecord(TRUE))]
    /\ h' = [h EXCEPT !.pc = "L132", !.counted = << >>]
    /\ UNCHANGED << clock, metrics, policy, workload, budget, pending, peak, st >>

\* an enforcement that builds the message and does not raise
EnforceRaise_continue ==
    /\ h.pc = "L49"
    /\ h' = [h EXCEPT !.pc = "L132"]
    /\ UNCHANGED << clock, user_requests, metrics, policy, workload, budget, pending, peak, st,
                    checks >>

\* governance.py:49-54
EnforceRaise ==
    /\ h.pc = "L49"
    /\ h' = [h EXCEPT !.pc = "reply",
                      !.response = [status |-> "429",
                                    current_requests |->
                                        Len(dict_get(user_requests, h.user)),
                                    limit |-> get_user_limit(h.user)]]
    /\ UNCHANGED << clock, user_requests, metrics, policy, workload, budget, pending, peak, st, checks >>

\* main.py:132-133
GaugeInc ==
    /\ h.pc = "L132"
    /\ ACTIVE_REQUESTS' = ACTIVE_REQUESTS + 1
    /\ h' = [h EXCEPT !.pc = "L146"]
    /\ UNCHANGED << clock, user_requests, RATE_LIMIT_EXCEEDED, REQUEST_COUNT, TOKEN_COUNTS,
                    backend_calls, policy, workload, budget, pending, peak, st, checks >>

\* main.py:146-174: the call to the backend and the reading of its answer
BackendCall(status) ==
    /\ h.pc = "L146"
    /\ status \in workload.statuses
    /\ backend_calls' = backend_calls + 1
    /\ h' = [h EXCEPT !.pc = "L185", !.status = status]
    /\ UNCHANGED << clock, user_requests, RATE_LIMIT_EXCEEDED, ACTIVE_REQUESTS,
                    REQUEST_COUNT, TOKEN_COUNTS, policy, workload, budget, pending, peak, st, checks >>

\* a handler whose gauge decrement sits after the success path only, so
\* that the two error paths skip it
record_request_leak ==
    /\ h.pc = "L185"
    /\ REQUEST_COUNT' = [REQUEST_COUNT EXCEPT ![h.status] = @ + 1]
    /\ TOKEN_COUNTS' = IF h.status = "200" THEN TOKEN_COUNTS + 1 ELSE TOKEN_COUNTS
    /\ ACTIVE_REQUESTS' = IF h.status = "200" THEN ACTIVE_REQUESTS - 1 ELSE ACTIVE_REQUESTS
    /\ h' = [h EXCEPT !.pc = "reply", !.response = [NoResponse EXCEPT !.status = h.status]]
    /\ UNCHANGED << clock, user_requests, RATE_LIMIT_EXCEEDED, backend_calls, policy, workload,
                    budget, pending, peak, st, checks >>

\* metrics.py:60-76 as called at main.py:185, :217 and :225, then the
\* finally clause, main.py:231-232
record_request ==
    /\ h.pc = "L185"
    /\ REQUEST_COUNT' = [REQUEST_COUNT EXCEPT ![h.status] = @ + 1]
    /\ TOKEN_COUNTS' = IF h.status = "200" THEN TOKEN_COUNTS + 1 ELSE TOKEN_COUNTS
    /\ ACTIVE_REQUESTS' = ACTIVE_REQUESTS - 1
    /\ h' = [h EXCEPT !.pc = "reply", !.response = [NoResponse EXCEPT !.status = h.status]]
    /\ UNCHANGED << clock, user_requests, RATE_LIMIT_EXCEEDED, backend_calls, policy, workload,
                    budget, pending, peak, st, checks >>

\* the response leaves and the event loop is free for the next handler
Reply ==
    /\ h.pc = "reply"
    /\ h' = IdleFrame
    /\ UNCHANGED << clock, user_requests, metrics, policy, workload, budget, pending, peak, st, checks >>

\* ------------------------------------------ get_user_stats, governance.py:56
\* main.py:107-110 and governance.py:58-59
StatsBegin(t, u) ==
    /\ st[t].pc = "idle"
    /\ u \in workload.users
    /\ st' = [st EXCEPT ![t] = [IdleStats EXCEPT !.pc = "L61", !.user = u,
                                                !.current_time = clock]]
    /\ UNCHANGED << clock, user_requests, metrics, policy, workload, budget, pending, peak, h, checks >>

\* a query that goes on to read the entry without having looked for it
StatsTestEntry_skip(t) ==
    /\ st[t].pc = "L61"
    /\ st' = [st EXCEPT ![t].pc = "L65"]
    /\ UNCHANGED << clock, user_requests, metrics, policy, workload, budget, pending, peak,
                    h, checks >>

\* governance.py:61
StatsTestEntry(t) ==
    /\ st[t].pc = "L61"
    /\ st' = [st EXCEPT ![t].pc = IF st[t].user \notin DOMAIN user_requests
                                    THEN "L62" ELSE "L65"]
    /\ UNCHANGED << clock, user_requests, metrics, policy, workload, budget, pending, peak, h, checks >>

\* governance.py:62
StatsInitEntry(t) ==
    /\ st[t].pc = "L62"
    /\ user_requests' = dict_set(user_requests, st[t].user, << >>)
    /\ st' = [st EXCEPT ![t].pc = "L65"]
    /\ UNCHANGED << clock, metrics, policy, workload, budget, pending, peak, h, checks >>

\* a count of the stored list as it is, without the filter
StatsCount_nofilter(t) ==
    /\ st[t].pc = "L65"
    /\ LET n == Len(user_requests[st[t].user])
           limit == get_user_limit(st[t].user)
       IN st' = [st EXCEPT ![t].pc = "L72",
                           ![t].snap = [requests_last_minute |-> n,
                                        rate_limit |-> limit,
                                        remaining |-> remaining(limit, n)]]
    /\ UNCHANGED << clock, user_requests, metrics, policy, workload, budget, pending, peak, h,
                    checks >>

\* governance.py:65-77: the list is read and counted; nothing is stored
StatsCount(t) ==
    /\ st[t].pc = "L65"
    /\ LET n == Len(recent_requests(user_requests[st[t].user],
                                    st[t].current_time - WINDOW))
           limit == get_user_limit(st[t].user)
       IN st' = [st EXCEPT ![t].pc = "L72",
                           ![t].snap = [requests_last_minute |-> n,
                                        rate_limit |-> limit,
                                        remaining |-> remaining(limit, n)]]
    /\ UNCHANGED << clock, user_requests, metrics, policy, workload, budget, pending, peak, h, checks >>

\* governance.py:72, the snapshot is returned
StatsReturn(t) ==
    /\ st[t].pc = "L72"
    /\ st' = [st EXCEPT ![t] = IdleStats]
    /\ UNCHANGED << clock, user_requests, metrics, policy, workload, budget, pending, peak, h, checks >>

\* ---------------------------------------------------------- specification
CheckStep ==
    \/ CheckReadClock
    \/ CheckTestEntry
    \/ CheckInitEntry
    \/ CheckFilter
    \/ CheckStorePruned
    \/ CheckCompare
    \/ CheckDeny
    \/ CheckAdmit
    \/ EnforceRaise

ServeStep ==
    \/ GaugeInc
    \/ \E s \in Statuses : BackendCall(s)
    \/ record_request
    \/ Reply

StatsStep(t) ==
    \/ StatsTestEntry(t)
    \/ StatsInitEntry(t)
    \/ StatsCount(t)
    \/ StatsReturn(t)

Next ==
    \/ Tick
    \/ \E u \in UserIds : Arrive(u)
    \/ \E u \in UserIds, e \in BOOLEAN : Start(u, e)
    \/ CheckStep
    \/ ServeStep
    \/ \E t \in StatsThreads, u \in UserIds : StatsBegin(t, u)
    \/ \E t \in StatsThreads : StatsStep(t)

Spec == Init /\ [][Next]_vars

\* the same program when no stats query overlaps an admission check or
\* another stats query: every operation on the ledger runs to its end
\* before the next one starts
InCheck == h.pc \in {"L23", "L27", "L28", "L33", "L32", "L38", "L39", "L43", "L49"}

StatsIdle == \A t \in StatsThreads : st[t].pc = "idle"

NextSeq ==
    \/ Tick
    \/ \E u \in UserIds : Arrive(u)
    \/ \E u \in UserIds, e \in BOOLEAN : StatsIdle /\ Start(u, e)
    \/ CheckStep
    \/ ServeStep
    \/ \E t \in StatsThreads, u \in UserIds : ~InCheck /\ StatsIdle /\ StatsBegin(t, u)
    \/ \E t \in StatsThreads : StatsStep(t)

SpecSeq == Init /\ [][NextSeq]_vars

\* the program started with any of the tables
SpecLoad == InitLoad /\ [][Next]_vars

\* ------------------------------------------------ vocabulary of the claims
Min(a, b) == IF a < b THEN a ELSE b

\* the checks of user u with index in i..j that returned admitted
AdmittedAmong(u, i, j) == {k \in i..j : checks[u][k].ok}

\* the number of checks of u that returned admitted with timestamp in (lo, hi]
AdmittedIn(u, lo, hi) ==
    Cardinality({k \in DOMAIN checks[u] :
                    checks[u][k].ok /\ checks[u][k].t > lo /\ checks[u][k].t <= hi})

\* no check of u before the i-th was admitted in the 60 seconds before it
EmptyWindowAt(u, i) ==
    \A k \in 1..(i - 1) : ~(checks[u][k].ok /\ checks[u][k].t > checks[u][i].t - WINDOW)

\* the i-th to j-th check of u lie in one span of less than 60 seconds
OneSpan(u, i, j) == i <= j /\ checks[u][j].t - checks[u][i].t < WINDOW

TotalAdmitted ==
    Cardinality(UNION {{<<u, k>> : k \in AdmittedAmong(u, 1, Len(checks[u]))} : u \in UserIds})

RequestsRecorded == REQUEST_COUNT["200"] + REQUEST_COUNT["503"] + REQUEST_COUNT["500"]

\* the handler on the event loop was denied and has not replied yet
DeniedHandler ==
    \/ h.pc = "L49"
    \/ h.pc = "reply" /\ h.response.status = "429"

C4_SlidingRecovery ==
    \A u \in UserIds : \A i \in DOMAIN checks[u] :
        (/\ i + 1 \in DOMAIN checks[u]
         /\ ~checks[u][i].ok
         /\ checks[u][i].oldest <= checks[u][i + 1].t - WINDOW)
            => checks[u][i + 1].ok

\* a user was denied and admitted again less than 60 seconds after the denial
C4_Witness ==
    \E u \in UserIds : \E i \in DOMAIN checks[u] :
        /\ i + 1 \in DOMAIN checks[u]
        /\ ~checks[u][i].ok
        /\ checks[u][i].oldest <= checks[u][i + 1].t - WINDOW
        /\ checks[u][i + 1].t - checks[u][i].t < WINDOW
        /\ checks[u][i + 1].ok

\* the user on whose behalf the event loop, or a stats thread, takes a step
LoopStepFor(u) ==
    /\ h' # h
    /\ u = IF h.pc = "idle" THEN h'.user ELSE h.user

StatsStepFor(u) ==
    \E t \in StatsThreads :
        /\ st'[t] # st[t]
        /\ u = IF st[t].pc = "idle" THEN st'[t].user ELSE st[t].user

\* C5: a step changes the ledger entry, the log of decisions and the
\* rejection counter of a user only if it is a step of an operation for that
\* user; so the decisions for B are those of the run without A's operations.
C5_Isolation ==
    [][\A b \in UserIds :
          (\/ (b \in DOMAIN user_requests') # (b \in DOMAIN user_requests)
           \/ dict_get(user_requests', b) # dict_get(user_requests, b)
           \/ checks'[b] # checks[b]
           \/ RATE_LIMIT_EXCEEDED'[b] # RATE_LIMIT_EXCEEDED[b])
              => (LoopStepFor(b) \/ StatsStepFor(b))]_vars

\* both users hold timestamps and have been decided on
C5_Witness ==
    /\ \A u \in UserIds : u \in DOMAIN user_requests /\ user_requests[u] # << >>
    /\ \A u \in UserIds : checks[u] # << >>
    /\ RATE_LIMIT_EXCEEDED["bob"] = 0

C7_Expected(u) == IF u = "bob" THEN RATE_LIMITS["bob"] ELSE RATE_LIMITS["default"]

C7_DefaultFallback ==
    \A u \in UserIds :
        /\ \A k \in DOMAIN checks[u] : checks[u][k].ok <=> (checks[u][k].n < C7_Expected(u))
        /\ (h.user = u /\ h.pc \in {"L27", "L28", "L33", "L32", "L38", "L39", "L43", "L49"})
               => h.limit = C7_Expected(u)
        /\ (h.user = u /\ DeniedHandler /\ h.pc = "reply")
               => h.response.limit = C7_Expected(u)
        /\ \A t \in StatsThreads :
               (st[t].user = u /\ st[t].pc = "L72") => st[t].snap.rate_limit = C7_Expected(u)

\* the unconfigured user is admitted with nine requests counted and denied
\* with ten
C7_Witness ==
    /\ \E k \in DOMAIN checks["Bob"] :
           checks["Bob"][k].ok /\ checks["Bob"][k].n = RATE_LIMITS["default"] - 1
    /\ \E k \in DOMAIN checks["Bob"] :
           ~checks["Bob"][k].ok /\ checks["Bob"][k].n = RATE_LIMITS["default"]

\* C8: the rejection counter of a user is the number of checks of that user
\* that returned denied.
C8_RejectionMetric ==
    \A u \in UserIds :
        RATE_LIMIT_EXCEEDED[u]
            = Cardinality({k \in DOMAIN checks[u] : ~checks[u][k].ok})

\* bob was admitted once and denied once, a stats query for Bob has run, and
\* only bob's counter moved
C8_Witness ==
    /\ RATE_LIMIT_EXCEEDED["bob"] = 1
    /\ RATE_LIMIT_EXCEEDED["Bob"] = 0
    /\ "Bob" \in DOMAIN user_requests
    /\ Len(checks["bob"]) = 2
    /\ \E k \in DOMAIN checks["bob"] : checks["bob"][k].ok

\* C9: the backend is called only in a handler whose own check was admitted,
\* and while a denied handler runs, every backend call, request metric and
\* token record made so far belongs to an admitted request and the gauge of
\* active requests is at rest.
C9_ShortCircuit ==
    /\ backend_calls <= TotalAdmitted
    /\ h.pc \in {"L132", "L146", "L185"} =>
           /\ checks[h.user] # << >>
           /\ checks[h.user][Len(checks[h.user])].ok
           /\ checks[h.user][Len(checks[h.user])].t = h.current_time
    /\ DeniedHandler =>
           /\ backend_calls = TotalAdmitted
           /\ RequestsRecorded = TotalAdmitted
           /\ TOKEN_COUNTS = REQUEST_COUNT["200"]
           /\ ACTIVE_REQUESTS = 0

\* a request is denied after another was admitted and served
C9_Witness ==
    /\ DeniedHandler
    /\ h.pc = "reply"
    /\ backend_calls >= 1
    /\ RequestsRecorded >= 1

\* C10: the message of a 429 reports the number of timestamps the denying
\* check counted and the user's limit.
C10_DenialPayload ==
    (h.pc = "reply" /\ h.response.status = "429") =>
        /\ h.response.current_requests = Len(h.counted)
        /\ h.response.limit = get_user_limit(h.user)

\* C11: a stats query for a user none of whose checks was admitted returns
\* 0 requests, the user's limit and the whole limit as remaining; and no
\* step of a check or of a stats query subscripts user_requests with a key
\* it does not hold (the KeyError is the one way these functions can raise).
C11_StatsUnseenUser ==
    /\ \A t \in StatsThreads :
           (st[t].pc = "L72" /\ AdmittedIn(st[t].user, -1, MaxTime) = 0) =>
               /\ st[t].snap.requests_last_minute = 0
               /\ st[t].snap.rate_limit = get_user_limit(st[t].user)
               /\ st[t].snap.remaining = st[t].snap.rate_limit
    /\ \A t \in StatsThreads : st[t].pc = "L65" => st[t].user \in DOMAIN user_requests
    /\ h.pc \in {"L33", "L32", "L38", "L39", "L43"} => h.user \in DOMAIN user_requests
    /\ "default" \in DOMAIN policy

\* the snapshot of the unconfigured user before any request of that user
C11_Witness ==
    \E t \in StatsThreads :
        /\ st[t].pc = "L72"
        /\ st[t].user = "Bob"
        /\ checks["Bob"] = << >>
        /\ pending["Bob"] = 0
        /\ st[t].snap = [requests_last_minute |-> 0, rate_limit |-> RATE_LIMITS["default"],
                         remaining |-> RATE_LIMITS["default"]]

\* C12: when a stats query taken at time now returns, the stored sequence of
\* the user holds only timestamps newer than now - 60, and the query has
\* appended nothing.
C12_StatsPrunesStored ==
    \A t \in StatsThreads :
        st[t].pc = "L72" =>
            /\ \A k \in DOMAIN user_requests[st[t].user] :
                   user_requests[st[t].user][k] > st[t].current_time - WINDOW
            /\ Len(user_requests[st[t].user]) <= AdmittedIn(st[t].user, -1, MaxTime)

\* the stored timestamps of user u are all newer than now - 60
AllWithin(u, now) ==
    \A k \in DOMAIN dict_get(user_requests, u) : user_requests[u][k] > now - WINDOW

\* C13: every stored sequence is non-decreasing, and right after a check or
\* a read for a user at time now all of that user's stored timestamps lie in
\* the 60 seconds up to now.
C13_LedgerInvariant ==
    /\ \A u \in DOMAIN user_requests :
           \A i \in DOMAIN user_requests[u] : \A j \in DOMAIN user_requests[u] :
               i < j => user_requests[u][i] <= user_requests[u][j]
    /\ h.pc \in {"L49", "L132"} => AllWithin(h.user, h.current_time)
    /\ \A t \in StatsThreads : st[t].pc = "L72" => AllWithin(st[t].user, st[t].current_time)

\* the table the process holds has a limit of zero or below
Malformed == \E k \in DOMAIN policy : policy[k] <= 0

C17_EntryLifecycle ==
    [][/\ DOMAIN user_requests \subseteq DOMAIN user_requests'
       /\ \A u \in UserIds :
              (u \in DOMAIN user_requests' /\ u \notin DOMAIN user_requests) =>
                  (h.user = u /\ h.pc = "L28" /\ h'.pc = "L33")]_vars

\* the timestamps stored for u that are less than 60 seconds old
StoredFresh(u) ==
    {k \in DOMAIN dict_get(user_requests, u) : dict_get(user_requests, u)[k] > clock - WINDOW}

\* C18: however a stats query interleaves with the admission checks, the
\* timestamp of every admitted check is in the user's stored sequence while
\* it is less than 60 seconds old.
C18_NoLostAdmission ==
    \A u \in UserIds : Cardinality(StoredFresh(u)) >= AdmittedIn(u, clock - WINDOW, clock)

\* C19: no user's stored sequence is longer than the user's limit, so the
\* count in a denial message and the count in a stats snapshot never exceed
\* the limit.
C19_StoredWithinLimit ==
    /\ \A u \in UserIds : Len(dict_get(user_requests, u)) <= get_user_limit(u)
    /\ (h.pc = "reply" /\ h.response.status = "429") =>
           h.response.current_requests <= h.response.limit
    /\ \A t \in StatsThreads :
           st[t].pc = "L72" => st[t].snap.requests_last_minute <= st[t].snap.rate_limit

\* a denial that reports a full window of the burst user while a stats
\* snapshot of a full window of that user is about to be returned
C19_Witness ==
    /\ h.pc = "reply" /\ h.response.status = "429" /\ h.user = BurstUser
    /\ h.response.current_requests = get_user_limit(BurstUser)
    /\ Len(dict_get(user_requests, BurstUser)) = get_user_limit(BurstUser)
    /\ \E t \in StatsThreads :
           /\ st[t].pc = "L72" /\ st[t].user = BurstUser
           /\ st[t].snap.requests_last_minute = st[t].snap.rate_limit

\* the handler is between the gauge's increment, main.py:132, and the
\* finally clause, main.py:231-232
InFlight == h.pc \in {"L146", "L185"}

\* the handler's last admission check returned admitted
LastCheckAdmitted ==
    /\ checks[h.user] # << >>
    /\ checks[h.user][Len(checks[h.user])].ok

\* C20: the gauge is 1 while an admitted request is in flight and 0
\* otherwise, so it is never negative; it goes up only by one, at an admitted
\* request; it goes down only by one, when that request finishes with 200,
\* 503 or 500, and every such finish takes it down; and a request with an
\* empty prompt is answered 400 with the ledger, the log of checks and every
\* metric as they were.
C20_GaugeBalanced ==
    /\ [](/\ ACTIVE_REQUESTS = (IF InFlight THEN 1 ELSE 0)
          /\ ACTIVE_REQUESTS >= 0
          /\ h.pc \in {"idle", "reply"} => ACTIVE_REQUESTS = 0)
    /\ [][/\ ACTIVE_REQUESTS' \in {ACTIVE_REQUESTS - 1, ACTIVE_REQUESTS, ACTIVE_REQUESTS + 1}
          /\ ACTIVE_REQUESTS' = ACTIVE_REQUESTS + 1 =>
                 (h.pc = "L132" /\ h'.pc = "L146" /\ LastCheckAdmitted)
          /\ ACTIVE_REQUESTS' = ACTIVE_REQUESTS - 1 =>
                 (h.pc = "L185" /\ h'.pc = "reply" /\ h'.response.status \in Statuses)
          /\ (h.pc = "L185" /\ h'.pc # "L185") => ACTIVE_REQUESTS' = ACTIVE_REQUESTS - 1
          /\ (h.pc = "idle" /\ h'.pc = "reply") =>
                 /\ h'.response.status = "400"
                 /\ UNCHANGED << user_requests, checks, metrics, backend_calls >>]_vars

\* a request that failed with 500 has finished after an earlier one
\* succeeded, and the gauge is back at 0
C20_Witness ==
    /\ h.pc = "reply" /\ h.response.status = "500"
    /\ REQUEST_COUNT["200"] >= 1 /\ REQUEST_COUNT["500"] >= 1
    /\ ACTIVE_REQUESTS = 0
====
